---- MODULE Spec2Model ----
(***************************************************************************)
(* Audit-log lifecycle management of backend/app/core/data_management.py:  *)
(* retention pruning, archival, backup, restore, and the full-maintenance  *)
(* orchestration of backend/app/api/routes/data_management.py, with the    *)
(* route handlers and the scheduler of backend/app/core/scheduler.py that  *)
(* call them.                                                              *)
(*                                                                         *)
(* Time is a single integer clock.  A policy threshold of d days and a     *)
(* record timestamp are both counted in ticks of that clock, and a file    *)
(* name carries the tick at which the file was created (the code formats   *)
(* the wall clock to one second; two runs in one tick get the same name).  *)
(***************************************************************************)
EXTENDS Integers, Sequences, FiniteSets, TLC

\* ------------------------------------------------------------------ bounds
MaxTime == 2
MaxLogs == 3
MaxDays == 2
MaxInit == 2
MaxBackups == 1

Procs == {1, 2}
Days == 0..MaxDays

VARIABLES
    now,        \* the wall clock
    nextId,     \* number of identities handed out so far (uuid4 never repeats)
    live,       \* the audit_log table: a set of records, unique by id
    archives,   \* archive directory: path -> [logs, mtime]
    backups,    \* backup directory: path -> [rows, mtime]
    arch,       \* per caller: the locals of a running archive_old_logs
    last,       \* what the most recently finished operation returned or raised
    maint,      \* the run_full_maintenance request in flight
    comp,       \* the locals of a running compress_old_archives
    reported,   \* history: path -> the log_count create_backup returned for it
    rest,       \* the locals of a running restore_from_backup
    scheduler,  \* the module-level DataManagementScheduler instance
    response    \* what the most recently finished route handler answered

vars ==
    <<now, nextId, live, archives, backups, arch, last, maint, comp, reported,
      rest, scheduler, response>>

\* the state of the callers of the manager: routes and scheduled jobs
others == <<rest, scheduler, response>>

\* ------------------------------------------------------------------ values
None == <<-1, "None">>

\* f"audit_logs_{timestamp}.json.gz" in archive_dir
ArchivePath(stamp) == <<stamp, "json.gz">>

\* an uncompressed archive "audit_logs_<stamp>.json" in archive_dir
JsonPath(stamp) == <<stamp, "json">>

\* archive_file.with_suffix('.json.gz')
with_suffix_json_gz(path) == <<path[1], "json.gz">>

\* f"audit_logs_backup_{timestamp}.sqlite" in backup_dir
BackupPath(stamp) == <<stamp, "sqlite">>

\* backup_dir / f"uploaded_{file.filename}"
UploadedPath(k) == <<k, "uploaded.sqlite">>

\* a path naming nothing, and the path of the backup directory itself
MissingPath == <<0, "nonexistent.sqlite">>
BackupDir == <<0, "dir">>

\* before_state of a record: absent, the empty dict, a non-empty dict
NoState == "None"
EmptyState == "{}"
SomeState == "{k: v}"

AuditLog(id, timestamp, before_state) ==
    [id |-> id, timestamp |-> timestamp, before_state |-> before_state]

\* ---------------------------------------------------------- serialization
\* datetime.isoformat() and datetime.fromisoformat(): text that parses back,
\* or text that does not parse at all.
isoformat(t) == <<"iso", t>>
BadTimestamp == <<"garbage", 0>>
IsIso(text) == text[1] = "iso"
fromisoformat(text) == text[2]

\* json.dumps(x) if x else None: an empty dict is falsy and is stored as NULL
NullText == "NULL"
BadJson == "{k: "
json_dumps_or_none(state) ==
    IF state = NoState \/ state = EmptyState THEN NullText ELSE state

\* json.loads(text) if text else None
IsJson(text) == text \in {EmptyState, SomeState}
json_loads_or_none(text) == IF text = NullText THEN NoState ELSE text

\* one row of the snapshot table, as create_backup inserts it
ToRow(log) ==
    [id |-> log.id,
     timestamp |-> isoformat(log.timestamp),
     before_state |-> json_dumps_or_none(log.before_state)]

\* a reconstruction that calls json.loads on a NULL column too
RowParsesNoNull(row) ==
    /\ IsJson(row.before_state)
    /\ IsIso(row.timestamp)

\* the row reconstructs: neither json.loads nor fromisoformat raises
RowParses(row) ==
    /\ row.before_state = NullText \/ IsJson(row.before_state)
    /\ IsIso(row.timestamp)

FromRow(row) ==
    AuditLog(row.id, fromisoformat(row.timestamp),
             json_loads_or_none(row.before_state))

\* ------------------------------------------------------------- file system
Put(dir, path, file) ==
    [p \in DOMAIN dir \cup {path} |-> IF p = path THEN file ELSE dir[p]]

Remove(dir, paths) == [p \in DOMAIN dir \ paths |-> dir[p]]

NoFiles == [p \in {} |-> None]

Range(s) == {s[i] : i \in DOMAIN s}

\* every order in which the database may return a set of rows
Orderings(S) ==
    {s \in [1..Cardinality(S) -> S] : \A i, j \in 1..Cardinality(S) :
                                          i # j => s[i] # s[j]}

Ids(logs) == {r.id : r \in logs}

\* --------------------------------------------------------------- predicates
\* a comparison that also takes the record dated exactly at the cutoff
OlderOrEqual(timestamp, cutoff) == timestamp <= cutoff

\* AuditLog.timestamp < cutoff
OlderThan(timestamp, cutoff) == timestamp < cutoff

\* a comparison that also takes the file written exactly at the cutoff
MtimeBeforeOrEqual(mtime, cutoff) == mtime <= cutoff

\* st_mtime < cutoff.timestamp()
MtimeBefore(mtime, cutoff) == mtime < cutoff

\* a select that also takes the record dated exactly at the cutoff
SelectOlderOrEqual(table, cutoff) == {r \in table : r.timestamp <= cutoff}

\* select(AuditLog).where(AuditLog.timestamp < cutoff)
SelectOlder(table, cutoff) == {r \in table : OlderThan(r.timestamp, cutoff)}

\* a delete whose cutoff is one tick too early
DeleteOlderOffByOne(table, cutoff) == {r \in table : r.timestamp < cutoff - 1}

\* a delete that removes no row
DeleteNone(table, cutoff) == {}

\* delete(AuditLog).where(AuditLog.timestamp < cutoff): the rows it removes
DeleteOlder(table, cutoff) == {r \in table : OlderThan(r.timestamp, cutoff)}

\* the locals of archive_old_logs.  After the call returns only cutoff is
\* kept, as a record of the cutoff the caller's latest run computed.
ArchIdle ==
    [pc |-> "idle", cutoff |-> 0, logs |-> <<>>, file |-> None, seen |-> {}]

\* st_size of a file of newline-delimited JSON, of its gzip copy (a header
\* and the compressed lines) and of a snapshot (a schema page and the rows)
JsonSize(logs) == 3 * Len(logs)
GzipSize(logs) == 1 + Len(logs)
SqliteSize(rows) == 1 + Cardinality(rows)

RECURSIVE SumOver(_, _)
SumOver(S, f) ==
    IF S = {} THEN 0
    ELSE LET x == CHOOSE y \in S : TRUE IN f[x] + SumOver(S \ {x}, f)

\* an orchestrator that takes the snapshot before it archives
StagesBackupFirst == <<"retention", "backup", "archive", "compress", "cleanup">>

\* the locals of compress_old_archives.  After the call returns only days and
\* cutoff are kept, as a record of the policy and cutoff of the latest run.
CompIdle ==
    [pc |-> "idle", days |-> 0, cutoff |-> 0, todo |-> {}, file |-> None,
     compressed_count |-> 0, total_saved_mb |-> 0]

Stages == <<"retention", "archive", "compress", "backup", "cleanup">>

\* the position of a stage in the orchestrator's sequence of calls
StageIndex(stage) == CHOOSE i \in 1..Len(Stages) : Stages[i] = stage

\* the three callers of the sequence: POST /maintenance/full, the command
\* line's full-maintenance command, the scheduler's weekly job
Entries == {"route", "script", "job"}

\* cleanup_old_backups(keep_days=30), as the scheduled job calls it
DefaultKeepDays == 30

MaintIdle ==
    [pc |-> "idle", entry |-> "route",
     policy |-> [retention_days |-> 0, archive_after_days |-> 0,
                 compress_after_days |-> 0],
     backup_keep_days |-> 0, results |-> <<>>, http |-> 0, seen |-> {}]

\* the locals of restore_from_backup
RestIdle ==
    [pc |-> "idle", path |-> None, todo |-> {}, added |-> {},
     restored_count |-> 0, total_in_backup |-> 0]

\* DataRetentionPolicy(...): the constructor stores its five arguments
DataRetentionPolicy(r_days, a_days, c_days, max_mb, interval_hours) ==
    [retention_days |-> r_days,
     archive_after_days |-> a_days,
     compress_after_days |-> c_days,
     max_log_size_mb |-> max_mb,
     backup_interval_hours |-> interval_hours]

\* DataRetentionPolicy(): the defaults of the constructor
DefaultPolicy == DataRetentionPolicy(90, 30, 7, 1000, 24)

\* the ids of the jobs _setup_jobs registers
Jobs ==
    {"retention_policy", "archive_logs", "compress_archives", "create_backup",
     "cleanup_backups", "full_maintenance"}

\* how the latest run of a scheduled job ended (history): whether it returned
\* or an exception left it, whether it logged an error, what became of the
\* session it asked for, and the policy it gave its manager
NoRun ==
    [id |-> "none", outcome |-> "returned", logged_error |-> FALSE,
     session |-> "closed", policy |-> DefaultPolicy]

\* DataManagementScheduler(): a stopped BackgroundScheduler, the default
\* policy, the six jobs
SchedulerInit ==
    [running |-> FALSE, policy |-> DefaultPolicy, jobs |-> Jobs, ran |-> NoRun]

NoResponse == [route |-> "none", status |-> 0]

InitOthers ==
    /\ rest = RestIdle
    /\ scheduler = SchedulerInit
    /\ response = NoResponse

\* ------------------------------------------------------------------- clock
Tick ==
    /\ now < MaxTime
    /\ now' = now + 1
    /\ UNCHANGED <<nextId, live, archives, backups, arch, last, maint, comp, reported, others>>

\* ------------------------------------------------------------ record insert
\* POST /audit-logs/: the client supplies the record, timestamp included
create_audit_log ==
    /\ nextId < MaxLogs
    /\ \E t \in 0..now :
          live' = live \cup {AuditLog(nextId + 1, t, NoState)}
    /\ nextId' = nextId + 1
    /\ last' = [op |-> "create_audit_log", outcome |-> "ok"]
    /\ UNCHANGED <<now, archives, backups, arch, maint, comp, reported, others>>

\* --------------------------------------------------------------- retention
RetentionStmt(days) ==
    LET cutoff_date == now - days
        deleted == DeleteOlder(live, cutoff_date)
    IN  /\ live' = live \ deleted
        /\ last' = [op |-> "apply_retention_policy", outcome |-> "ok",
                    deleted_count |-> Cardinality(deleted),
                    cutoff_date |-> cutoff_date]
        /\ UNCHANGED <<now, nextId, archives, backups, arch, reported>>

apply_retention_policy ==
    /\ \E days \in Days : RetentionStmt(days)
    /\ UNCHANGED <<maint, comp, others>>

\* ----------------------------------------------------------------- archive
\* lines 79-86: compute the cutoff, select, return early on an empty selection
ArchiveSelect(p, days) ==
    LET archive_cutoff == now - days
        selected == SelectOlder(live, archive_cutoff)
    IN  /\ arch[p].pc = "idle"
        /\ IF selected = {}
           THEN /\ last' = [op |-> "archive_old_logs", outcome |-> "ok",
                            archived_count |-> 0, archive_file |-> None]
                /\ arch' = [arch EXCEPT ![p] =
                               [ArchIdle EXCEPT !.cutoff = archive_cutoff]]
           ELSE /\ \E logs_to_archive \in Orderings(selected) :
                      arch' = [arch EXCEPT ![p] =
                                  [pc |-> "selected", cutoff |-> archive_cutoff,
                                   logs |-> logs_to_archive, file |-> None,
                                   seen |-> live]]
                /\ last' = last
        /\ UNCHANGED <<now, nextId, live, archives, backups, reported>>

\* lines 88-111: name the file after the clock and write every selected record
ArchiveWrite(p) ==
    LET archive_file == ArchivePath(now)
    IN  /\ arch[p].pc = "selected"
        /\ archives' = Put(archives, archive_file,
                           [logs |-> arch[p].logs, mtime |-> now])
        /\ arch' = [arch EXCEPT ![p].pc = "written", ![p].file = archive_file]
        /\ UNCHANGED <<now, nextId, live, backups, last, reported>>

\* lines 113-129: delete by the cutoff predicate, commit, return
ArchiveDelete(p) ==
    LET deleted == DeleteOlder(live, arch[p].cutoff)
    IN  /\ arch[p].pc = "written"
        /\ live' = live \ deleted
        /\ last' = [op |-> "archive_old_logs", outcome |-> "ok",
                    archived_count |-> Cardinality(deleted),
                    archive_file |-> arch[p].file,
                    archive_size_mb |-> GzipSize(arch[p].logs),
                    archive_cutoff |-> arch[p].cutoff]
        /\ arch' = [arch EXCEPT ![p] =
                       [ArchIdle EXCEPT !.cutoff = arch[p].cutoff]]
        /\ UNCHANGED <<now, nextId, archives, backups, reported>>

\* a failed transaction whose delete took effect all the same
CommittedAnyway(table, deleted) == table \ deleted

\* the table after a transaction that raised before session.commit(): the
\* session is closed without a commit and the delete is rolled back
RolledBack(table, deleted) == table

\* lines 113-118 when the database rejects the delete or the commit: the
\* exception leaves archive_old_logs, which has no handler and removes no file
ArchiveDeleteFails(p) ==
    LET deleted == DeleteOlder(live, arch[p].cutoff)
    IN  /\ arch[p].pc = "written"
        /\ live' = RolledBack(live, deleted)
        /\ last' = [op |-> "archive_old_logs", outcome |-> "OperationalError"]
        /\ arch' = [arch EXCEPT ![p] =
                       [ArchIdle EXCEPT !.cutoff = arch[p].cutoff]]
        /\ UNCHANGED <<now, nextId, archives, backups, reported>>

\* a snapshot query that leaves out the records dated before the clock
SelectRecent(table) == {r \in table : ~(r.timestamp < now)}

\* select(AuditLog): every row of the table
SelectAll(table) == table

Quiet == \A p \in Procs : arch[p].pc = "idle"

\* ------------------------------------------------------------------ backup
\* a create_backup that writes its rows over the file of the same name
Overwritten(dir, path, file) == Put(dir, path, file)

\* sqlite3.connect opens the existing file and CREATE TABLE raises "table
\* audit_logs already exists" before any row is inserted: the file stays
CreateTableFails(dir, path, file) == dir

BackupStmt ==
    LET backup_file == BackupPath(now)
        logs == SelectAll(live)
    IN  /\ IF backup_file \in DOMAIN backups
           THEN /\ backups' = CreateTableFails(backups, backup_file,
                                               [rows |-> {ToRow(log) : log \in logs},
                                                mtime |-> now])
                /\ reported' = reported
                /\ last' = [op |-> "create_backup",
                            outcome |-> "OperationalError"]
           ELSE /\ backups' = Put(backups, backup_file,
                                  [rows |-> {ToRow(log) : log \in logs},
                                   mtime |-> now])
                /\ reported' = Put(reported, backup_file, Cardinality(logs))
                /\ last' = [op |-> "create_backup", outcome |-> "ok",
                            backup_file |-> backup_file,
                            log_count |-> Cardinality(logs)]
        /\ UNCHANGED <<now, nextId, live, archives, arch>>

create_backup ==
    /\ BackupStmt
    /\ UNCHANGED <<maint, comp, others>>

\* ---------------------------------------------------------------- compress
\* archive_dir.glob("audit_logs_*.json") older than the compress cutoff
CompressCandidates(days) ==
    {path \in DOMAIN archives :
        /\ path[2] = "json"
        /\ MtimeBefore(archives[path].mtime, now - days)}

CompressStmt(days) ==
    LET old == CompressCandidates(days)
        made == {with_suffix_json_gz(path) : path \in old}
        saved == [path \in old |-> JsonSize(archives[path].logs)
                                    - GzipSize(archives[path].logs)]
    IN  /\ archives' =
              [path \in (DOMAIN archives \ old) \cup made |->
                  IF path \in made
                  THEN [logs |-> archives[JsonPath(path[1])].logs,
                        mtime |-> now]
                  ELSE archives[path]]
        /\ last' = [op |-> "compress_old_archives", outcome |-> "ok",
                    compressed_count |-> Cardinality(old),
                    total_saved_mb |-> SumOver(old, saved)]
        /\ UNCHANGED <<now, nextId, live, backups, arch, reported>>

compress_old_archives ==
    /\ \E days \in Days : CompressStmt(days)
    /\ UNCHANGED <<maint, comp, others>>

\* ------------------------------------------- compress, one statement at a time
\* a copy that stops one line short of the end of the file
CopiedShort(logs) == SubSeq(logs, 1, Len(logs) - 1)

\* shutil.copyfileobj(f_in, f_out) run to the end, and both files closed
Copied(logs) == logs

\* an unlink that leaves the file where it is
Kept(dir, path) == dir

\* archive_file.unlink()
Unlinked(dir, path) == Remove(dir, {path})

CompReturned(days, cutoff) == [CompIdle EXCEPT !.days = days, !.cutoff = cutoff]

\* lines 136-141: compute the cutoff and list the files to compress; with
\* none the loop body never runs and the call returns zero counts
CompressBegin(days) ==
    LET compress_cutoff == now - days
        todo == CompressCandidates(days)
    IN  /\ comp.pc = "idle"
        /\ IF todo = {}
           THEN /\ comp' = CompReturned(days, compress_cutoff)
                /\ last' = [op |-> "compress_old_archives", outcome |-> "ok",
                            compressed_count |-> 0, total_saved_mb |-> 0]
           ELSE /\ comp' = [pc |-> "scan", days |-> days,
                            cutoff |-> compress_cutoff, todo |-> todo,
                            file |-> None, compressed_count |-> 0,
                            total_saved_mb |-> 0]
                /\ last' = last
        /\ UNCHANGED <<now, nextId, live, archives, backups, arch, maint,
                       reported, others>>

\* lines 147-149: gzip.open(compressed_file, 'wb') creates the file, or
\* truncates the file of that name
CompressOpen ==
    /\ comp.pc = "scan"
    /\ \E archive_file \in comp.todo :
          /\ archives' = Put(archives, with_suffix_json_gz(archive_file),
                             [logs |-> <<>>, mtime |-> now])
          /\ comp' = [comp EXCEPT !.pc = "copying", !.file = archive_file]
    /\ UNCHANGED <<now, nextId, live, backups, arch, last, maint, reported, others>>

\* line 150: the copy, and the end of both with blocks
CompressCopy ==
    /\ comp.pc = "copying"
    /\ archives' = Put(archives, with_suffix_json_gz(comp.file),
                       [logs |-> Copied(archives[comp.file].logs),
                        mtime |-> now])
    /\ comp' = [comp EXCEPT !.pc = "copied"]
    /\ UNCHANGED <<now, nextId, live, backups, arch, last, maint, reported, others>>

\* lines 152-161: measure, unlink the original, count; after the last file
\* the call returns
CompressUnlink ==
    LET archive_file == comp.file
        compressed_file == with_suffix_json_gz(archive_file)
        saved == JsonSize(archives[archive_file].logs)
                    - GzipSize(archives[compressed_file].logs)
        compressed_count == comp.compressed_count + 1
        total_saved_mb == comp.total_saved_mb + saved
        todo == comp.todo \ {archive_file}
    IN  /\ comp.pc = "copied"
        /\ archives' = Unlinked(archives, archive_file)
        /\ IF todo = {}
           THEN /\ comp' = CompReturned(comp.days, comp.cutoff)
                /\ last' = [op |-> "compress_old_archives", outcome |-> "ok",
                            compressed_count |-> compressed_count,
                            total_saved_mb |-> total_saved_mb]
           ELSE /\ comp' = [comp EXCEPT !.pc = "scan", !.todo = todo,
                                        !.file = None,
                                        !.compressed_count = compressed_count,
                                        !.total_saved_mb = total_saved_mb]
                /\ last' = last
        /\ UNCHANGED <<now, nextId, live, backups, arch, maint, reported, others>>

\* an OSError while copying (the disk is full) or at stat or unlink: nothing
\* in compress_old_archives catches it or removes the file being written
CompressFails ==
    /\ comp.pc \in {"copying", "copied"}
    /\ comp' = CompReturned(comp.days, comp.cutoff)
    /\ last' = [op |-> "compress_old_archives", outcome |-> "OSError"]
    /\ UNCHANGED <<now, nextId, live, archives, backups, arch, maint,
                   reported, others>>

\* ----------------------------------------------------------------- cleanup
\* backup_dir.glob("audit_logs_backup_*.sqlite") older than the keep window
CleanupCandidates(keep_days) ==
    {path \in DOMAIN backups :
        /\ path[2] = "sqlite"
        /\ MtimeBefore(backups[path].mtime, now - keep_days)}

CleanupStmt(keep_days) ==
    LET old == CleanupCandidates(keep_days)
        size == [path \in old |-> SqliteSize(backups[path].rows)]
    IN  /\ backups' = Remove(backups, old)
        /\ last' = [op |-> "cleanup_old_backups", outcome |-> "ok",
                    deleted_count |-> Cardinality(old),
                    freed_mb |-> SumOver(old, size),
                    cutoff_days |-> keep_days]
        /\ UNCHANGED <<now, nextId, live, archives, arch, reported>>

cleanup_old_backups ==
    /\ \E keep_days \in Days : CleanupStmt(keep_days)
    /\ UNCHANGED <<maint, comp, others>>

\* --------------------------------------------------------------- scheduler
\* MemoryJobStore.shutdown(), which BackgroundScheduler.shutdown() calls on
\* its job stores: the default store forgets every job it holds
ShutDown(jobs) == {}

\* start(): self.scheduler.start() unless the scheduler is running
start ==
    /\ scheduler' = [scheduler EXCEPT !.running = TRUE]
    /\ last' = [op |-> "start", outcome |-> "ok"]
    /\ UNCHANGED <<now, nextId, live, archives, backups, arch, maint, comp,
                   reported, rest, response>>

\* stop(): self.scheduler.shutdown() when the scheduler is running
stop ==
    /\ scheduler' = IF scheduler.running
                    THEN [scheduler EXCEPT !.running = FALSE,
                                           !.jobs = ShutDown(@)]
                    ELSE scheduler
    /\ last' = [op |-> "stop", outcome |-> "ok"]
    /\ UNCHANGED <<now, nextId, live, archives, backups, arch, maint, comp,
                   reported, rest, response>>

\* DataManagementScheduler.update_policy(policy): self.policy = policy
scheduler_update_policy(policy) ==
    /\ scheduler' = [scheduler EXCEPT !.policy = policy]
    /\ last' = [op |-> "update_policy", outcome |-> "ok"]
    /\ UNCHANGED <<now, nextId, live, archives, backups, arch, maint, comp,
                   reported, rest, response>>

\* the jobs whose stage is one statement of the model
AtomicJobs ==
    {"retention_policy", "compress_archives", "create_backup",
     "cleanup_backups"}

\* manager = AuditLogDataManager(session, self.policy); manager.<stage>()
JobStage(id) ==
    CASE id = "retention_policy" ->
             RetentionStmt(scheduler.policy.retention_days)
      [] id = "compress_archives" ->
             CompressStmt(scheduler.policy.compress_after_days)
      [] id = "create_backup" -> BackupStmt
      [] id = "cleanup_backups" -> CleanupStmt(DefaultKeepDays)

\* the call of a job that raises: none, self._get_db_session(), the
\* constructor of the manager, the stage
FailsAt == {"nowhere", "get_db", "manager", "stage"}

\* one run of a scheduled job: try: session, manager, stage; except
\* Exception: log; finally: session.close().  When _get_db_session raises,
\* the name session is unbound in the finally clause and session.close()
\* raises UnboundLocalError out of the job.
ScheduledJob(id, fails) ==
    /\ scheduler.running
    /\ id \in scheduler.jobs
    /\ IF fails = "nowhere"
       THEN /\ JobStage(id)
            /\ scheduler' =
                   [scheduler EXCEPT !.ran =
                       [id |-> id, outcome |-> "returned",
                        logged_error |-> last'.outcome # "ok",
                        session |-> "closed", policy |-> scheduler.policy]]
       ELSE /\ scheduler' =
                   [scheduler EXCEPT !.ran =
                       IF fails = "get_db"
                       THEN [id |-> id, outcome |-> "UnboundLocalError",
                             logged_error |-> TRUE, session |-> "unbound",
                             policy |-> scheduler.policy]
                       ELSE [id |-> id, outcome |-> "returned",
                             logged_error |-> TRUE, session |-> "closed",
                             policy |-> scheduler.policy]]
            /\ UNCHANGED <<now, nextId, live, archives, backups, arch, last,
                           reported>>
    /\ UNCHANGED <<maint, comp, rest, response>>

\* ------------------------------------------------------------------ routes
\* the number of days a client may put in a query parameter: FastAPI parses
\* an int and the handlers put no bound on it
RequestDays == (0 - 1)..MaxDays

\* POST /retention/apply?retention_days=...
apply_data_retention(retention_days) ==
    LET policy == DataRetentionPolicy(retention_days,
                                      DefaultPolicy.archive_after_days,
                                      DefaultPolicy.compress_after_days,
                                      DefaultPolicy.max_log_size_mb,
                                      DefaultPolicy.backup_interval_hours)
    IN  /\ RetentionStmt(policy.retention_days)
        /\ response' = [route |-> "apply_data_retention", status |-> 200,
                        deleted_count |-> last'.deleted_count,
                        cutoff_date |-> last'.cutoff_date]
        /\ UNCHANGED <<maint, comp, rest, scheduler>>

\* the body create_archive builds from the result of archive_old_logs:
\* result["archive_size_mb"] raises KeyError when the key is missing, and an
\* exception that leaves a handler is answered with 500
create_archive_response(result) ==
    IF result.outcome # "ok"
    THEN [route |-> "create_archive", status |-> 500,
          error |-> result.outcome]
    ELSE IF "archive_size_mb" \notin DOMAIN result
    THEN [route |-> "create_archive", status |-> 500, error |-> "KeyError"]
    ELSE [route |-> "create_archive", status |-> 200,
          archived_count |-> result.archived_count,
          archive_file |-> result.archive_file,
          archive_size_mb |-> result.archive_size_mb]

\* POST /archive/create?archive_after_days=...: the three steps of
\* archive_old_logs, the response once it has returned
create_archive_select(archive_after_days) ==
    /\ ArchiveSelect(1, archive_after_days)
    /\ response' = IF arch'[1].pc = "idle"
                   THEN create_archive_response(last') ELSE response
    /\ UNCHANGED <<maint, comp, rest, scheduler>>

create_archive_write ==
    /\ ArchiveWrite(1)
    /\ UNCHANGED <<maint, comp, others>>

create_archive_delete ==
    /\ ArchiveDelete(1)
    /\ response' = create_archive_response(last')
    /\ UNCHANGED <<maint, comp, rest, scheduler>>

\* an optional query parameter of PUT /policy/update (Optional[int] = None):
\* absent, or an int
Absent == <<>>
Given(n) == <<n>>
RequestValues == {Absent, Given(0), Given(MaxDays)}

\* x or y: the right operand when the left one is None or 0
Or(x, y) == IF x = Absent \/ x = Given(0) THEN y ELSE x[1]

\* PUT /policy/update: the current policy is the policy of a manager built
\* without one, the new policy is built and returned, nothing is stored
update_policy(request) ==
    LET current_policy == DefaultPolicy
        new_policy ==
            DataRetentionPolicy(
                Or(request.retention_days, current_policy.retention_days),
                Or(request.archive_after_days,
                   current_policy.archive_after_days),
                Or(request.compress_after_days,
                   current_policy.compress_after_days),
                Or(request.max_log_size_mb, current_policy.max_log_size_mb),
                Or(request.backup_interval_hours,
                   current_policy.backup_interval_hours))
    IN  /\ response' = [route |-> "update_policy", status |-> 200,
                        request |-> request,
                        old_policy |-> current_policy,
                        new_policy |-> new_policy]
        /\ UNCHANGED <<now, nextId, live, archives, backups, arch, last,
                       maint, comp, reported, rest, scheduler>>

\* GET /policy/current: the policy of a manager built without one
get_current_policy ==
    /\ response' = [route |-> "get_current_policy", status |-> 200,
                    policy |-> DefaultPolicy]
    /\ UNCHANGED <<now, nextId, live, archives, backups, arch, last,
                   maint, comp, reported, rest, scheduler>>

\* ----------------------------------------------------------------- restore
\* Path.exists(): true of a file and of a directory
Exists(path) == path \in DOMAIN backups \/ path = BackupDir

\* a commit that accepts a record whose id is already in the table
CommitAcceptsAll(table, added) == TRUE

\* session.commit() of the added records: the primary key on id rejects the
\* whole transaction when an added id is already live or is added twice
CommitAccepts(table, added) ==
    /\ Ids(added) \cap Ids(table) = {}
    /\ \A r1, r2 \in added : r1.id = r2.id => r1 = r2

\* a restore that clears the table first (the delete the code has commented
\* out at lines 259-261)
Replaced(table, added) == added

\* session.add of every reconstructed record, then session.commit()
Merged(table, added) == table \cup added

\* what restore_from_backup returns or raises, and the table it leaves
RestoreOutcome(path) ==
    IF ~Exists(path) THEN "FileNotFoundError"
    ELSE IF path \notin DOMAIN backups THEN "OperationalError"
    ELSE IF ~CommitAccepts(live, {FromRow(row) : row \in
                {r \in backups[path].rows : RowParses(r)}})
         THEN "IntegrityError"
    ELSE "ok"

\* the route: FileNotFoundError -> 404, any other exception -> 500
HttpStatus(outcome) ==
    IF outcome = "ok" THEN 200
    ELSE IF outcome = "FileNotFoundError" THEN 404
    ELSE 500

RestoreStmt(path) ==
    LET outcome == RestoreOutcome(path)
    IN  /\ IF outcome = "ok"
           THEN LET backup_logs == backups[path].rows
                    restored == {row \in backup_logs : RowParses(row)}
                IN  /\ live' = Merged(live, {FromRow(row) : row \in restored})
                    /\ last' = [op |-> "restore_from_backup",
                                outcome |-> "ok", http |-> HttpStatus("ok"),
                                restored_count |-> Cardinality(restored),
                                backup_file |-> path,
                                total_in_backup |-> Cardinality(backup_logs)]
           ELSE /\ live' = live
                /\ last' = [op |-> "restore_from_backup",
                            outcome |-> outcome, http |-> HttpStatus(outcome),
                            backup_file |-> path]
        /\ UNCHANGED <<now, nextId, archives, backups, arch, reported>>

RestorePaths == DOMAIN backups \cup {MissingPath, BackupDir}

restore_from_backup(path) ==
    /\ RestoreStmt(path)
    /\ UNCHANGED <<maint, comp, others>>

\* -------------------------------------------- restore, one row at a time
\* lines 246-257: the path test, the connection, the SELECT and fetchall
RestoreOpen(path) ==
    /\ rest.pc = "idle"
    /\ IF path \in DOMAIN backups
       THEN /\ rest' = [pc |-> "rows", path |-> path,
                        todo |-> backups[path].rows, added |-> {},
                        restored_count |-> 0,
                        total_in_backup |-> Cardinality(backups[path].rows)]
            /\ last' = last
       ELSE /\ rest' = rest
            /\ last' = [op |-> "restore_from_backup",
                        outcome |-> RestoreOutcome(path),
                        http |-> HttpStatus(RestoreOutcome(path)),
                        backup_file |-> path]
    /\ UNCHANGED <<now, nextId, live, archives, backups, arch, maint, comp,
                   reported, scheduler, response>>

\* lines 264-286: one pass of the loop over the fetched rows; a row that does
\* not reconstruct is logged and left out
RestoreRow ==
    /\ rest.pc = "rows"
    /\ \E log_data \in rest.todo :
          rest' = IF RowParses(log_data)
                  THEN [rest EXCEPT !.todo = @ \ {log_data},
                                    !.added = @ \cup {FromRow(log_data)},
                                    !.restored_count = @ + 1]
                  ELSE [rest EXCEPT !.todo = @ \ {log_data}]
    /\ UNCHANGED <<now, nextId, live, archives, backups, arch, last, maint,
                   comp, reported, scheduler, response>>

\* lines 288-296: after the last row, the commit and the result
RestoreCommit ==
    /\ rest.pc = "rows"
    /\ rest.todo = {}
    /\ IF CommitAccepts(live, rest.added)
       THEN /\ live' = Merged(live, rest.added)
            /\ last' = [op |-> "restore_from_backup", outcome |-> "ok",
                        http |-> HttpStatus("ok"),
                        restored_count |-> rest.restored_count,
                        backup_file |-> rest.path,
                        total_in_backup |-> rest.total_in_backup]
       ELSE /\ live' = live
            /\ last' = [op |-> "restore_from_backup",
                        outcome |-> "IntegrityError",
                        http |-> HttpStatus("IntegrityError"),
                        backup_file |-> rest.path]
    /\ rest' = RestIdle
    /\ UNCHANGED <<now, nextId, archives, backups, arch, maint, comp,
                   reported, scheduler, response>>

\* ------------------------------------------------------------------ upload
\* rows an uploaded snapshot may hold: well-formed ones, one whose before_state
\* text is not JSON, one whose timestamp text is not a date
GoodRow(id) ==
    [id |-> id, timestamp |-> isoformat(0), before_state |-> NullText]
CorruptJsonRow(id) ==
    [id |-> id, timestamp |-> isoformat(0), before_state |-> BadJson]
CorruptTimestampRow(id) ==
    [id |-> id, timestamp |-> BadTimestamp, before_state |-> NullText]

UploadContents ==
    {{GoodRow(1)}, {GoodRow(2)}, {GoodRow(1), CorruptJsonRow(2)},
     {GoodRow(1), GoodRow(2), CorruptTimestampRow(3)},
     {CorruptJsonRow(1), CorruptTimestampRow(2)}}

\* POST /backup/upload: save the file, restore from it, unlink it on failure
upload_backup_file(content) ==
    LET backup_path == UploadedPath(1)
        rows == {row \in content : RowParses(row)}
        added == {FromRow(row) : row \in rows}
    IN  /\ IF CommitAccepts(live, added)
           THEN /\ backups' = Put(backups, backup_path,
                                  [rows |-> content, mtime |-> now])
                /\ live' = Merged(live, added)
                /\ last' = [op |-> "upload_backup_file", outcome |-> "ok",
                            http |-> 200,
                            restored_count |-> Cardinality(rows),
                            backup_file |-> backup_path,
                            total_in_backup |-> Cardinality(content)]
           ELSE /\ backups' = Remove(backups, {backup_path})
                /\ live' = live
                /\ last' = [op |-> "upload_backup_file",
                            outcome |-> "IntegrityError", http |-> 500,
                            backup_file |-> backup_path]
        /\ UNCHANGED <<now, nextId, archives, arch, maint, comp, reported, others>>

\* ------------------------------------------------------------ initial state
InitLive ==
    {S \in SUBSET {AuditLog(i, t, NoState) : i \in 1..MaxInit, t \in 0..1} :
        /\ \A r1, r2 \in S : r1.id = r2.id => r1 = r2
        /\ Ids(S) = 1..Cardinality(S)}

Init ==
    /\ now = 1
    /\ live \in InitLive
    /\ nextId = Cardinality(live)
    /\ archives = NoFiles
    /\ backups = NoFiles
    /\ arch = [p \in Procs |-> ArchIdle]
    /\ last = [op |-> "none", outcome |-> "ok"]
    /\ maint = MaintIdle
    /\ comp = CompIdle
    /\ reported = NoFiles
    /\ InitOthers

\* ------------------------------------------- one caller, one call at a time
SeqInsert == Quiet /\ create_audit_log
SeqRetention == Quiet /\ apply_retention_policy
SeqArchiveSelect == \E days \in Days : ArchiveSelect(1, days) /\ UNCHANGED <<maint, comp, others>>
SeqArchiveWrite == ArchiveWrite(1) /\ UNCHANGED <<maint, comp, others>>
SeqArchiveDelete == ArchiveDelete(1) /\ UNCHANGED <<maint, comp, others>>

Next ==
    \/ Tick
    \/ SeqInsert
    \/ SeqRetention
    \/ SeqArchiveSelect
    \/ SeqArchiveWrite
    \/ SeqArchiveDelete

Spec == Init /\ [][Next]_vars

\* ------------- one caller, within one tick, with a database that may fail a delete
SeqArchiveDeleteFails == ArchiveDeleteFails(1) /\ UNCHANGED <<maint, comp, others>>

NextArchiveFailure ==
    \/ SeqInsert
    \/ SeqArchiveSelect
    \/ SeqArchiveWrite
    \/ SeqArchiveDelete
    \/ SeqArchiveDeleteFails

SpecArchiveFailure == Init /\ [][NextArchiveFailure]_vars

\* ------------------------------------------------ backup, restore and upload
Restore == \E path \in RestorePaths : restore_from_backup(path)
Upload == \E content \in UploadContents : upload_backup_file(content)

NextBackup ==
    \/ Tick
    \/ apply_retention_policy
    \/ create_backup
    \/ Restore
    \/ Upload

InitBackup ==
    /\ Init
    /\ \A r \in live : r.timestamp = 0

SpecBackup == InitBackup /\ [][NextBackup]_vars

\* ------------------------------ the retention, archive and policy handlers
RouteRetention == Quiet /\ \E d \in RequestDays : apply_data_retention(d)
RouteArchiveSelect == \E d \in RequestDays : create_archive_select(d)
PolicyFields ==
    {"retention_days", "archive_after_days", "compress_after_days",
     "max_log_size_mb", "backup_interval_hours"}
RouteUpdatePolicy ==
    Quiet /\ \E request \in [PolicyFields -> RequestValues] :
                update_policy(request)

NextRoutes ==
    \/ Tick
    \/ SeqInsert
    \/ RouteRetention
    \/ RouteArchiveSelect
    \/ create_archive_write
    \/ create_archive_delete

SpecRoutes == Init /\ [][NextRoutes]_vars

NextPolicy ==
    \/ get_current_policy
    \/ RouteUpdatePolicy

SpecPolicy == Init /\ [][NextPolicy]_vars

\* ------------------------------------------- the scheduler and its jobs
\* the policies a caller hands to DataManagementScheduler.update_policy
SchedulerPolicies ==
    {DataRetentionPolicy(d, d, d, DefaultPolicy.max_log_size_mb,
                         DefaultPolicy.backup_interval_hours) : d \in Days}

SchedulerUpdatePolicy ==
    \E policy \in SchedulerPolicies : scheduler_update_policy(policy)
RunJob == \E id \in AtomicJobs, fails \in FailsAt : ScheduledJob(id, fails)

NextScheduler ==
    \/ Tick
    \/ start
    \/ stop
    \/ SchedulerUpdatePolicy
    \/ RunJob

SpecScheduler == Init /\ [][NextScheduler]_vars

\* ------------------ every operation that reads or writes the backup directory,
\* next to the operations that change live storage and the archive directory
SnapBackup == Quiet /\ create_backup
SnapRestore == Quiet /\ Restore
SnapCleanup == Quiet /\ cleanup_old_backups
SnapCompress == Quiet /\ compress_old_archives
\* POST /archive/create?archive_after_days=0
SnapArchiveSelect == ArchiveSelect(1, 0) /\ UNCHANGED <<maint, comp, others>>

NextSnapshot ==
    \/ Tick
    \/ SeqRetention
    \/ SnapBackup
    \/ SnapRestore
    \/ SnapCleanup
    \/ SnapCompress
    \/ SnapArchiveSelect
    \/ SeqArchiveWrite
    \/ SeqArchiveDelete

\* a table holding two records of different age
InitSnapshot ==
    /\ Init
    /\ live = {AuditLog(1, 0, NoState), AuditLog(2, 1, NoState)}

SpecSnapshot == InitSnapshot /\ [][NextSnapshot]_vars

\* ------------------------------- the archive directory: archive and compress
\* uncompressed archives "audit_logs_<stamp>.json" left in the directory
LegacyJson(stamp) ==
    [logs |-> <<AuditLog(0 - stamp, 0, NoState)>>, mtime |-> stamp]

LegacyDirs ==
    {[path \in {JsonPath(stamp) : stamp \in S} |-> LegacyJson(path[1])] :
        S \in SUBSET {0, 1}}

InitCompress ==
    /\ now = 1
    /\ live \in InitLive
    /\ nextId = Cardinality(live)
    /\ archives \in LegacyDirs
    /\ backups = NoFiles
    /\ arch = [p \in Procs |-> ArchIdle]
    /\ last = [op |-> "none", outcome |-> "ok"]
    /\ maint = MaintIdle
    /\ comp = CompIdle
    /\ reported = NoFiles
    /\ InitOthers

CompArchiveSelect == comp.pc = "idle" /\ SeqArchiveSelect
CompBegin == Quiet /\ \E days \in Days : CompressBegin(days)

NextCompress ==
    \/ Tick
    \/ CompArchiveSelect
    \/ SeqArchiveWrite
    \/ SeqArchiveDelete
    \/ CompBegin
    \/ CompressOpen
    \/ CompressCopy
    \/ CompressUnlink

SpecCompress == InitCompress /\ [][NextCompress]_vars

NextCompressFailure ==
    \/ Tick
    \/ CompBegin
    \/ CompressOpen
    \/ CompressCopy
    \/ CompressUnlink
    \/ CompressFails

SpecCompressFailure == InitCompress /\ [][NextCompressFailure]_vars

\* ------------------------ the backup directory: snapshots, uploads and cleanup
NextCleanup ==
    \/ Tick
    \/ create_backup
    \/ Upload
    \/ cleanup_old_backups

SpecCleanup == InitBackup /\ [][NextCleanup]_vars

\* ----------------------------- archive_old_logs overlapping another request
ArchiveSelectBy(p) == \E days \in Days : ArchiveSelect(p, days) /\ UNCHANGED <<maint, comp, others>>
ArchiveWriteBy(p) == ArchiveWrite(p) /\ UNCHANGED <<maint, comp, others>>
ArchiveDeleteBy(p) == ArchiveDelete(p) /\ UNCHANGED <<maint, comp, others>>

\* one archive run; a restore may happen at any point of it
SeqBackup ==
    /\ Quiet
    /\ Cardinality(DOMAIN backups) < MaxBackups
    /\ create_backup

NextArchiveRestore ==
    \/ Tick
    \/ SeqInsert
    \/ SeqRetention
    \/ SeqBackup
    \/ Restore
    \/ ArchiveSelectBy(1)
    \/ ArchiveWriteBy(1)
    \/ ArchiveDeleteBy(1)

SpecArchiveRestore == InitBackup /\ [][NextArchiveRestore]_vars

\* one archive run; a retention run may happen at any point of it
NextArchiveRetention ==
    \/ Tick
    \/ SeqInsert
    \/ apply_retention_policy
    \/ ArchiveSelectBy(1)
    \/ ArchiveWriteBy(1)
    \/ ArchiveDeleteBy(1)

SpecArchiveRetention == Init /\ [][NextArchiveRetention]_vars

\* two archive runs that may overlap
NextArchiveArchive ==
    \/ Tick
    \/ SeqInsert
    \/ \E p \in Procs : ArchiveSelectBy(p)
    \/ \E p \in Procs : ArchiveWriteBy(p)
    \/ \E p \in Procs : ArchiveDeleteBy(p)

SpecArchiveArchive == Init /\ [][NextArchiveArchive]_vars

\* --------------------------------------------------- run_full_maintenance
\* the request's parameters
Policy(r, a, c) ==
    [retention_days |-> r, archive_after_days |-> a, compress_after_days |-> c]

MaintPolicies == {Policy(2, 1, 0), Policy(1, 0, 0), Policy(1, 1, 0), Policy(0, 1, 0)}

\* backup_keep_days: a parameter of the route and of the command line, the
\* default of cleanup_old_backups in the scheduled job
KeepDays(entry) == IF entry = "job" THEN {DefaultKeepDays} ELSE {0, 1}

\* seen: the live records when the run started (history, not program state)
MaintStart ==
    /\ maint.pc = "idle"
    /\ Quiet
    /\ \E entry \in Entries, policy \in MaintPolicies :
          \E keep \in KeepDays(entry) :
              maint' = [pc |-> Stages[1], entry |-> entry, policy |-> policy,
                        backup_keep_days |-> keep, results |-> <<>>,
                        http |-> 0, seen |-> live]
    /\ UNCHANGED <<now, nextId, live, archives, backups, arch, last, comp,
                   reported, others>>

\* the stage returned: keep its result and go on to the next stage; the last
\* stage builds the response
\* an orchestrator that goes on to the stage after the next one
ReturnedSkipsNext(stage, result) ==
    IF StageIndex(stage) >= Len(Stages) - 1
    THEN [maint EXCEPT !.pc = "done", !.results = Append(@, result)]
    ELSE [maint EXCEPT !.pc = Stages[StageIndex(stage) + 2],
                       !.results = Append(@, result)]

\* an orchestrator that calls the stage again and never moves on
ReturnedStays(stage, result) == maint

Returned(stage, result) ==
    IF StageIndex(stage) = Len(Stages)
    THEN [maint EXCEPT !.pc = "done",
                       !.http = IF maint.entry = "route" THEN 200 ELSE 0,
                       !.results = Append(@, result)]
    ELSE [maint EXCEPT !.pc = Stages[StageIndex(stage) + 1],
                       !.results = Append(@, result)]

\* the stage raised: no caller catches it per stage.  The route ends with the
\* exception (HTTP 500), the command line with a traceback, the scheduled job
\* logs one error; none of them runs the later stages or reports a result.
Raised ==
    [maint EXCEPT !.pc = "raised",
                  !.http = IF maint.entry = "route" THEN 500 ELSE 0,
                  !.results = <<>>]

AfterStage(stage, result) ==
    IF result.outcome = "ok" THEN Returned(stage, result) ELSE Raised

MaintRetention ==
    /\ maint.pc = "retention"
    /\ RetentionStmt(maint.policy.retention_days)
    /\ maint' = AfterStage("retention", last')
    /\ comp' = comp
    /\ UNCHANGED others

MaintArchiveSelect ==
    /\ maint.pc = "archive"
    /\ ArchiveSelect(1, maint.policy.archive_after_days)
    /\ maint' = IF arch'[1].pc = "idle" THEN AfterStage("archive", last') ELSE maint
    /\ comp' = comp
    /\ UNCHANGED others

MaintArchiveWrite ==
    /\ maint.pc = "archive"
    /\ ArchiveWrite(1)
    /\ maint' = maint
    /\ comp' = comp
    /\ UNCHANGED others

MaintArchiveDelete ==
    /\ maint.pc = "archive"
    /\ ArchiveDelete(1)
    /\ maint' = AfterStage("archive", last')
    /\ comp' = comp
    /\ UNCHANGED others

MaintCompress ==
    /\ maint.pc = "compress"
    /\ CompressStmt(maint.policy.compress_after_days)
    /\ maint' = AfterStage("compress", last')
    /\ comp' = comp
    /\ UNCHANGED others

MaintBackup ==
    /\ maint.pc = "backup"
    /\ BackupStmt
    /\ maint' = AfterStage("backup", last')
    /\ comp' = comp
    /\ UNCHANGED others

MaintCleanup ==
    /\ maint.pc = "cleanup"
    /\ CleanupStmt(maint.backup_keep_days)
    /\ maint' = AfterStage("cleanup", last')
    /\ comp' = comp
    /\ UNCHANGED others

\* a legacy uncompressed archive left in the archive directory
LegacyArchive ==
    [path \in {JsonPath(0)} |->
        [logs |-> <<AuditLog(0, 0, NoState)>>, mtime |-> 0]]

InitMaintenance ==
    /\ now = 1
    /\ live \in InitLive
    /\ nextId = Cardinality(live)
    /\ archives = LegacyArchive
    /\ backups = NoFiles
    /\ arch = [p \in Procs |-> ArchIdle]
    /\ last = [op |-> "none", outcome |-> "ok"]
    /\ maint = MaintIdle
    /\ comp = CompIdle
    /\ reported = NoFiles
    /\ InitOthers

\* requests served before the maintenance request arrives
EarlierBackup ==
    /\ maint.pc = "idle"
    /\ Cardinality(DOMAIN backups) < MaxBackups
    /\ create_backup
EarlierInsert == maint.pc = "idle" /\ create_audit_log

NextMaintenance ==
    \/ Tick
    \/ EarlierInsert
    \/ EarlierBackup
    \/ MaintStart
    \/ MaintRetention
    \/ MaintArchiveSelect
    \/ MaintArchiveWrite
    \/ MaintArchiveDelete
    \/ MaintCompress
    \/ MaintBackup
    \/ MaintCleanup

SpecMaintenance == InitMaintenance /\ [][NextMaintenance]_vars

\* ===================================================================== claims

\* C1: right after apply_retention_policy returns, no live record has a
\* timestamp strictly earlier than the cutoff the call computed.
C1_RetentionLeavesNoneOlder ==
    last.op = "apply_retention_policy" =>
        \A r \in live : ~(r.timestamp < last.cutoff_date)

C1_Witness ==
    /\ last.op = "apply_retention_policy"
    /\ last.deleted_count > 0
    /\ live # {}

\* C2: when archive_old_logs runs alone and finds a record older than its
\* cutoff, the records in the file it wrote, the records its delete removed
\* and the records that were live and older than the cutoff when it was
\* called are one and the same set, and archived_count is the size of it.
C2_ArchiveMovesExactlyTheOld ==
    [][(arch[1].pc = "written" /\ arch'[1].pc = "idle") =>
          LET file == arch[1].file
              written == Range(archives'[file].logs)
              removed == live \ live'
              old == {r \in arch[1].seen : r.timestamp < arch[1].cutoff}
          IN  /\ old # {}
              /\ written = old
              /\ removed = old
              /\ Len(archives'[file].logs) = Cardinality(old)
              /\ last'.op = "archive_old_logs"
              /\ last'.archive_file = file
              /\ last'.archived_count = Cardinality(old)]_vars

C2_Witness ==
    /\ last.op = "archive_old_logs"
    /\ last.archived_count = 2
    /\ last.archive_file \in DOMAIN archives
    /\ live # {}

\* C6: a snapshot that create_backup made of N live records, restored into
\* an emptied live store, gives restored_count = N, total_in_backup = N and
\* exactly N live records.
C6_BackupRestoreRoundTrip ==
    [][\A path \in DOMAIN reported \cap DOMAIN backups :
          (live = {} /\ restore_from_backup(path)) =>
              /\ last'.outcome = "ok"
              /\ last'.restored_count = reported[path]
              /\ last'.total_in_backup = reported[path]
              /\ Cardinality(live') = reported[path]]_vars

C6_Witness ==
    /\ last.op = "restore_from_backup"
    /\ last.outcome = "ok"
    /\ last.backup_file \in DOMAIN reported
    /\ reported[last.backup_file] = 2
    /\ last.restored_count = 2
    /\ Cardinality(live) = 2

\* C7: restoring a snapshot into a live store that already holds every
\* record of it succeeds, restores 0 rows and leaves the store unchanged.
C7_RestoreHeldSnapshotIsNoOp ==
    [][\A path \in DOMAIN backups :
          (/\ \A row \in backups[path].rows :
                  RowParses(row) /\ FromRow(row) \in live
           /\ restore_from_backup(path)) =>
              /\ last'.outcome = "ok"
              /\ last'.restored_count = 0
              /\ live' = live]_vars

\* C8: restore_from_backup on a path that is not an existing file fails with
\* FileNotFoundError (HTTP 404) and changes neither the live store nor the
\* archive and backup directories.
C8_RestoreMissingIsNotFound ==
    [][\A path \in RestorePaths \ DOMAIN backups :
          restore_from_backup(path) =>
              /\ last'.outcome = "FileNotFoundError"
              /\ last'.http = 404
              /\ live' = live
              /\ archives' = archives
              /\ backups' = backups]_vars

\* C9: a restore of a snapshot holding a row that cannot be reconstructed
\* returns a result, and every well-formed row of the snapshot is live
\* afterwards.
C9_CorruptRowsAreSkipped ==
    [][\A path \in DOMAIN backups :
          (/\ \E row \in backups[path].rows : ~RowParses(row)
           /\ restore_from_backup(path)) =>
              /\ last'.outcome = "ok"
              /\ \A row \in backups[path].rows :
                    RowParses(row) => FromRow(row) \in live']_vars

\* C3: archive_old_logs never removes from live storage a record that it did
\* not write to its archive file, also when a restore inserts a record older
\* than the cutoff between the select and the delete.
C3_ArchiveRemovesOnlyWhatItWrote ==
    [][(arch[1].pc = "written" /\ arch'[1].pc = "idle") =>
          (live \ live') \subseteq Range(archives'[arch[1].file].logs)]_vars

\* C4: an archive run and a retention run on the same store never both
\* process a row: retention removes no record the archive run has selected,
\* and the archive file holds as many records as archived_count reports.
C4_ArchiveAndRetentionDisjoint ==
    [][/\ (arch[1].pc # "idle" /\ arch' = arch) =>
              (live \ live') \cap Range(arch[1].logs) = {}
       /\ (arch[1].pc = "written" /\ arch'[1].pc = "idle") =>
              Len(archives'[arch[1].file].logs) = last'.archived_count]_vars

\* C5: when two archive runs overlap, no record is written to more than one
\* archive file and no file is written for rows the other run has already
\* deleted from live storage.
C5_OverlappingArchivesDisjoint ==
    [][/\ \A p \in Procs :
              (arch[p].pc = "selected" /\ arch'[p].pc = "written") =>
                  Range(arch[p].logs) \subseteq live
       /\ \A f1, f2 \in DOMAIN archives' :
              f1 # f2 => Range(archives'[f1].logs)
                            \cap Range(archives'[f2].logs) = {}]_vars

\* C10: in a full-maintenance run a stage that fails is recorded in the
\* aggregate result and the later stages still run: the run never ends with
\* the stage's exception, it ends with a response holding all five stages.
C10_StageFailureDoesNotStopTheRun ==
    /\ maint.pc # "raised"
    /\ maint.pc = "done" => Len(maint.results) = Len(Stages)

\* C11: every full-maintenance entry point calls retention, archive, compress,
\* backup, cleanup in that order: the results gathered so far are those of
\* the first stages in that order, the stage running is the next one, and
\* archive_old_logs is in progress only while the run is at its archive stage.
C11_StagesRunInFixedOrder ==
    LET calls == <<"apply_retention_policy", "archive_old_logs",
                   "compress_old_archives", "create_backup",
                   "cleanup_old_backups">>
        order == <<"retention", "archive", "compress", "backup", "cleanup">>
        done == Len(maint.results)
    IN  /\ done <= Len(calls)
        /\ \A i \in 1..done : maint.results[i].op = calls[i]
        /\ maint.pc \notin {"idle", "raised", "done"} =>
               done < Len(order) /\ maint.pc = order[done + 1]
        /\ maint.pc = "done" => done = Len(calls)
        /\ arch[1].pc # "idle" => maint.pc = "archive"

C11_Witness ==
    /\ maint.pc = "done"
    /\ maint.entry = "job"
    /\ maint.results[1].deleted_count = 1
    /\ maint.results[2].archived_count = 1
    /\ maint.results[3].compressed_count = 1

\* C12: with archive_after_days <= retention_days and no other writer, once
\* the retention and archive stages of a run have returned, the records live
\* at its start are split by age: those older than the retention cutoff are
\* deleted and counted by retention and are in no archive file, those older
\* than the archive cutoff but not the retention cutoff are in exactly one
\* archive file and counted by archive, and the rest are exactly the live
\* records.
C12_MaintenancePartitionsByAge ==
    (/\ Len(maint.results) >= 2
     /\ maint.policy.archive_after_days <= maint.policy.retention_days) =>
        LET retention == maint.results[1]
            archival == maint.results[2]
            deleted == {r \in maint.seen :
                           r.timestamp < retention.cutoff_date}
            moved == {r \in maint.seen \ deleted :
                         r.timestamp < arch[1].cutoff}
            kept == (maint.seen \ deleted) \ moved
        IN  /\ retention.deleted_count = Cardinality(deleted)
            /\ archival.archived_count = Cardinality(moved)
            /\ live = kept
            /\ \A f \in DOMAIN archives :
                   Range(archives[f].logs) \cap deleted = {}
            /\ IF moved = {}
               THEN archival.archive_file = None
               ELSE /\ archival.archive_file \in DOMAIN archives
                    /\ archival.archive_cutoff = arch[1].cutoff
                    /\ \A f \in DOMAIN archives :
                           IF f = archival.archive_file
                           THEN /\ Range(archives[f].logs) = moved
                                /\ Len(archives[f].logs) = Cardinality(moved)
                           ELSE Range(archives[f].logs) \cap moved = {}

C12_Witness ==
    /\ maint.pc = "done"
    /\ maint.policy.archive_after_days < maint.policy.retention_days
    /\ maint.results[1].deleted_count = 1
    /\ maint.results[2].archived_count = 1
    /\ Cardinality(live) = 1
    /\ Cardinality(maint.seen) = 3

\* C13: the archive stage of a full-maintenance run selects no record that is
\* older than the retention window at the time the stage computes its own
\* 'now', also when the clock advanced after the retention stage.
C13_ArchiveStageSeesOnlyTheWindow ==
    [][(maint.pc = "archive" /\ arch[1].pc = "idle"
            /\ arch'[1].pc = "selected") =>
          \A r \in Range(arch'[1].logs) :
              ~(r.timestamp < now - maint.policy.retention_days)]_vars

\* C14: the snapshot a full-maintenance run produced holds no record that
\* the run's retention stage deleted or its archive stage moved to a file.
C14_SnapshotIsPostArchival ==
    \A i \in 1..Len(maint.results) :
        (/\ maint.results[i].op = "create_backup"
         /\ maint.results[i].backup_file \in DOMAIN backups) =>
            LET rows == backups[maint.results[i].backup_file].rows
            IN  Ids(rows) \cap Ids(maint.seen \ live) = {}

C14_Witness ==
    /\ maint.pc = "done"
    /\ maint.results[4].backup_file \in DOMAIN backups
    /\ maint.results[1].deleted_count = 1
    /\ maint.results[2].archived_count = 1
    /\ Cardinality(backups[maint.results[4].backup_file].rows) = 1

\* C15: when archive_old_logs has returned and is called again with nothing
\* else in between, and no live record is older than the new cutoff without
\* having been older than the previous one, the second call reports
\* archived_count 0 and no file and changes neither live storage nor the
\* archive directory.
C15_SecondArchiveRunIsEmpty ==
    [][\A days \in Days :
          (/\ last.op = "archive_old_logs"
           /\ last.outcome = "ok"
           /\ \A r \in live : r.timestamp < now - days =>
                                   r.timestamp < arch[1].cutoff
           /\ ArchiveSelect(1, days)) =>
              /\ last'.archived_count = 0
              /\ last'.archive_file = None
              /\ arch'[1].pc = "idle"
              /\ live' = live
              /\ archives' = archives]_vars

C15_Witness ==
    /\ last.op = "archive_old_logs"
    /\ last.archived_count = 0
    /\ Cardinality(DOMAIN archives) = 1
    /\ \A f \in DOMAIN archives :
           nextId = Cardinality(live) + Len(archives[f].logs)
    /\ live # {}
    /\ arch[1].cutoff = now

\* C16: a record whose timestamp equals the cutoff exactly is not deleted by
\* apply_retention_policy, and is neither selected, written nor deleted by
\* archive_old_logs: it stays live.
C16_CutoffIsStrict ==
    [][/\ \A days \in Days :
              RetentionStmt(days) =>
                  \A r \in live : r.timestamp = now - days => r \in live'
       /\ \A days \in Days :
              ArchiveSelect(1, days) =>
                  \A r \in live : r.timestamp = now - days =>
                      r \notin Range(arch'[1].logs)
       /\ (arch[1].pc = "written" /\ arch'[1].pc = "idle") =>
              \A r \in live : r.timestamp = arch[1].cutoff =>
                  /\ r \in live'
                  /\ r \notin Range(archives'[arch[1].file].logs)]_vars

C16_Witness ==
    /\ last.op = "apply_retention_policy"
    /\ \E r \in live : r.timestamp = last.cutoff_date
    /\ archives # NoFiles
    /\ \E r \in live : r.timestamp = arch[1].cutoff

\* C17: when no live record is older than the cutoff, archive_old_logs
\* returns archived_count 0 and archive_file None without raising, creates
\* no archive file and deletes nothing.
C17_EmptySelectionIsNoOp ==
    [][\A days \in Days :
          (/\ \A r \in live : ~(r.timestamp < now - days)
           /\ ArchiveSelect(1, days)) =>
              /\ last' = [op |-> "archive_old_logs", outcome |-> "ok",
                          archived_count |-> 0, archive_file |-> None]
              /\ arch'[1].pc = "idle"
              /\ archives' = archives
              /\ live' = live]_vars

C17_Witness ==
    /\ last.op = "archive_old_logs"
    /\ last.outcome = "ok"
    /\ last.archived_count = 0
    /\ last.archive_file = None
    /\ archives = NoFiles
    /\ \E r \in live : r.timestamp = arch[1].cutoff

\* C18: when the delete fails after the archive file was written, the call
\* ends with the error, the file is in place holding every selected record,
\* and every selected record is still live.
C18_FailedDeleteKeepsFileAndRecords ==
    [][(/\ arch[1].pc = "written"
        /\ arch'[1].pc = "idle"
        /\ last'.outcome # "ok") =>
          /\ last'.op = "archive_old_logs"
          /\ arch[1].file \in DOMAIN archives'
          /\ archives'[arch[1].file].logs = arch[1].logs
          /\ Range(arch[1].logs) \subseteq live'
          /\ live' = live]_vars

C18_Witness ==
    /\ last.op = "archive_old_logs"
    /\ last.outcome = "OperationalError"
    /\ \E f \in DOMAIN archives :
           /\ Len(archives[f].logs) = 2
           /\ Range(archives[f].logs) \subseteq live

\* C19: in every archive file the records appear in ascending order of
\* timestamp.
C19_ArchiveFileIsSortedByTimestamp ==
    \A f \in DOMAIN archives :
        \A i, j \in 1..Len(archives[f].logs) :
            i < j => archives[f].logs[i].timestamp
                        <= archives[f].logs[j].timestamp

\* C20: no step of an archive run changes or removes an archive file that
\* already exists.
C20_ArchiveFileIsNeverOverwritten ==
    [][\A f \in DOMAIN archives :
          f \in DOMAIN archives' /\ archives'[f] = archives[f]]_vars

\* C21: every create_backup succeeds and creates a snapshot file that did not
\* exist before, holding a copy of every live record, also when another
\* create_backup has run within the same tick of the clock.
C21_EveryBackupMakesItsOwnFile ==
    [][BackupStmt =>
          /\ last'.outcome = "ok"
          /\ last'.backup_file \notin DOMAIN backups
          /\ last'.backup_file \in DOMAIN backups'
          /\ backups'[last'.backup_file].rows = {ToRow(log) : log \in live}]_vars

\* C22: a snapshot file that create_backup returned keeps its rows through
\* every step for as long as it exists, and only cleanup_old_backups
\* removes it.
C22_SnapshotIsImmutable ==
    [][\A f \in DOMAIN backups \cap DOMAIN reported :
          IF f \in DOMAIN backups'
          THEN backups'[f].rows = backups[f].rows
          ELSE last'.op = "cleanup_old_backups"]_vars

C22_Witness ==
    /\ last.op = "create_backup"
    /\ last.outcome = "OperationalError"
    /\ \E f \in DOMAIN backups \cap DOMAIN reported :
           /\ Cardinality(backups[f].rows) = reported[f]
           /\ Ids(backups[f].rows) # Ids(live)

\* C23: when create_backup returns, the ids in the file it created are
\* exactly the ids live at the call, whatever the age of the records, and
\* log_count is the number of them.
C23_BackupIsFullSnapshot ==
    [][(BackupStmt /\ last'.outcome = "ok") =>
          LET rows == backups'[last'.backup_file].rows
          IN  /\ Ids(rows) = Ids(live)
              /\ Cardinality(rows) = Cardinality(live)
              /\ last'.log_count = Cardinality(live)]_vars

C23_Witness ==
    /\ last.op = "create_backup"
    /\ last.outcome = "ok"
    /\ last.log_count = 2
    /\ Ids(backups[last.backup_file].rows) = {1, 2}
    /\ \E r1, r2 \in live : r1.timestamp < r2.timestamp
    /\ \E r \in live : r.timestamp < now - 1

\* C24: create_backup on an empty live store succeeds with log_count 0 and a
\* file that exists and holds zero rows, and a restore of a zero-row
\* snapshot returns restored_count 0 and total_in_backup 0.
C24_EmptyStoreBackupSucceeds ==
    [][/\ (live = {} /\ BackupStmt) =>
              /\ last'.outcome = "ok"
              /\ last'.log_count = 0
              /\ last'.backup_file \in DOMAIN backups'
              /\ backups'[last'.backup_file].rows = {}
       /\ \A path \in DOMAIN backups :
              (backups[path].rows = {} /\ restore_from_backup(path)) =>
                  /\ last'.outcome = "ok"
                  /\ last'.restored_count = 0
                  /\ last'.total_in_backup = 0]_vars

\* C28: cleanup_old_backups(keep_days) removes exactly the snapshot files
\* create_backup named whose modification time is older than now - keep_days
\* and counts them, leaves every other file as it is, returns 0 and 0 when
\* there is none, and leaves no such file behind for a second call.
C28_CleanupDeletesExactlyTheOld ==
    [][\A keep_days \in Days :
          CleanupStmt(keep_days) =>
              LET old == {f \in DOMAIN backups :
                             /\ f = BackupPath(f[1])
                             /\ backups[f].mtime < now - keep_days}
              IN  /\ DOMAIN backups' = DOMAIN backups \ old
                  /\ \A f \in DOMAIN backups' : backups'[f] = backups[f]
                  /\ last'.outcome = "ok"
                  /\ last'.deleted_count = Cardinality(old)
                  /\ old = {} => last'.freed_mb = 0
                  /\ \A f \in DOMAIN backups' :
                         f = BackupPath(f[1]) =>
                             ~(backups'[f].mtime < now' - keep_days)]_vars

C28_Witness ==
    /\ last.op = "cleanup_old_backups"
    /\ last.deleted_count = 1
    /\ last.freed_mb > 0
    /\ BackupPath(now) \in DOMAIN backups
    /\ UploadedPath(1) \in DOMAIN backups

\* C29: every record that is live before restore_from_backup is live and
\* unchanged after it, whether the call returns or raises.
C29_RestoreKeepsLiveRecords ==
    [][/\ \A path \in RestorePaths :
              (last'.op = "restore_from_backup" /\ restore_from_backup(path))
                  => live \subseteq live'
       /\ \A content \in UploadContents :
              (last'.op = "upload_backup_file" /\ upload_backup_file(content))
                  => live \subseteq live']_vars

C29_Witness ==
    /\ last.op = "restore_from_backup"
    /\ last.outcome = "ok"
    /\ last.restored_count = 1
    /\ Cardinality(live) = 2

\* C30: when restore_from_backup returns a result, total_in_backup is the
\* number of rows of the snapshot, restored_count is at most that and is the
\* number of records the call added to live storage, and the difference is
\* the number of rows whose JSON or timestamp text does not parse.
C30_RestoreCountsAddUp ==
    [][\A path \in DOMAIN backups :
          (/\ last'.op = "restore_from_backup"
           /\ last'.outcome = "ok"
           /\ restore_from_backup(path)) =>
              LET rows == backups[path].rows
                  corrupt == {row \in rows :
                                 \/ row.before_state = BadJson
                                 \/ row.timestamp = BadTimestamp}
              IN  /\ last'.total_in_backup = Cardinality(rows)
                  /\ last'.restored_count <= last'.total_in_backup
                  /\ last'.restored_count = Cardinality(live' \ live)
                  /\ last'.total_in_backup - last'.restored_count
                         = Cardinality(corrupt)]_vars

C30_Witness ==
    /\ last.op = "restore_from_backup"
    /\ last.outcome = "ok"
    /\ last.total_in_backup = 3
    /\ last.restored_count = 2
    /\ Cardinality(live) = 2

\* C25: an uncompressed archive file disappears only in a step before which
\* its compressed copy already held the whole of its content, and that copy
\* is left as it is: whatever step of the compression fails, the content is
\* in the complete original or in a complete compressed copy.
C25_OriginalOutlivesTheCopy ==
    [][\A f \in DOMAIN archives :
          (f[2] = "json" /\ f \notin DOMAIN archives') =>
              LET compressed_file == with_suffix_json_gz(f)
              IN  /\ compressed_file \in DOMAIN archives
                  /\ archives[compressed_file].logs = archives[f].logs
                  /\ compressed_file \in DOMAIN archives'
                  /\ archives'[compressed_file] = archives[compressed_file]]_vars

C25_Witness ==
    /\ last.op = "compress_old_archives"
    /\ last.outcome = "OSError"
    /\ \E f \in DOMAIN archives :
           /\ f[2] = "json"
           /\ with_suffix_json_gz(f) \in DOMAIN archives
           /\ archives[with_suffix_json_gz(f)].logs # archives[f].logs
    /\ \E f \in DOMAIN archives :
           /\ f[2] = "json.gz"
           /\ JsonPath(f[1]) \notin DOMAIN archives
           /\ archives[f].logs = LegacyJson(f[1]).logs

\* C26 as stated: when compress_old_archives has returned and is called
\* again with the same compress_after_days and nothing else in between, the
\* second call returns compressed_count 0 and total_saved_mb 0 and leaves
\* the archive directory as it is.
C26_SecondCompressRunIsEmpty ==
    [][\A days \in Days :
          (/\ last.op = "compress_old_archives"
           /\ last.outcome = "ok"
           /\ days = comp.days
           /\ CompressBegin(days)) =>
              /\ comp'.pc = "idle"
              /\ last'.compressed_count = 0
              /\ last'.total_saved_mb = 0
              /\ archives' = archives]_vars

\* C26 amended: the same, for a second call before which no uncompressed
\* file has become older than the compress cutoff, that is, every file older
\* than the cutoff of the second call was older than that of the first.
C26_SecondCompressRunIsEmptyIfNoneCrossed ==
    [][\A days \in Days :
          (/\ last.op = "compress_old_archives"
           /\ last.outcome = "ok"
           /\ days = comp.days
           /\ \A f \in DOMAIN archives :
                  (f[2] = "json" /\ archives[f].mtime < now - days) =>
                      archives[f].mtime < comp.cutoff
           /\ CompressBegin(days)) =>
              /\ comp'.pc = "idle"
              /\ last'.compressed_count = 0
              /\ last'.total_saved_mb = 0
              /\ archives' = archives]_vars

C26_Witness ==
    /\ last.op = "compress_old_archives"
    /\ last.outcome = "ok"
    /\ last.compressed_count = 0
    /\ comp.pc = "idle"
    /\ comp.cutoff = now
    /\ \A stamp \in {0, 1} :
           /\ JsonPath(stamp) \notin DOMAIN archives
           /\ ArchivePath(stamp) \in DOMAIN archives
           /\ archives[ArchivePath(stamp)].logs = LegacyJson(stamp).logs

\* C27: no step of compress_old_archives changes or removes a .json.gz file
\* that was there when the step began to write, and none changes or removes
\* an uncompressed file that is not older than the cutoff of the run.
C27_CompressLeavesOtherFilesAlone ==
    [][/\ (comp.pc = "scan" /\ comp'.pc = "copying") =>
              \A f \in DOMAIN archives :
                  f[2] = "json.gz" =>
                      f \in DOMAIN archives' /\ archives'[f] = archives[f]
       /\ comp' # comp =>
              \A f \in DOMAIN archives :
                  (f[2] = "json" /\ ~(archives[f].mtime < comp'.cutoff)) =>
                      f \in DOMAIN archives' /\ archives'[f] = archives[f]]_vars

\* C31: apply_retention_policy deletes exactly the live records with
\* timestamp < cutoff, where cutoff is now minus the retention_days of its
\* policy: deleted_count is the number of those records, every record with
\* timestamp >= cutoff stays live and unchanged, and the archive and the
\* backup directory stay as they are.
C31_RetentionDeletesExactlyTheOld ==
    [][(last'.op = "apply_retention_policy" /\ apply_retention_policy) =>
          LET cutoff == last'.cutoff_date
              old == {r \in live : r.timestamp < cutoff}
          IN  /\ \E days \in Days : cutoff = now - days
              /\ live' = live \ old
              /\ last'.deleted_count = Cardinality(old)
              /\ \A r \in live : r.timestamp >= cutoff => r \in live'
              /\ archives' = archives
              /\ backups' = backups]_vars

C31_Witness ==
    /\ last.op = "apply_retention_policy"
    /\ last.deleted_count = 1
    /\ Cardinality(live) = 1
    /\ \A r \in live : r.timestamp = last.cutoff_date
    /\ backups # NoFiles

\* ------------------------------ backup, an emptied store, and restore into it
\* an audit_log table with before_state absent, the empty dict and a
\* non-empty dict
RoundTripTable ==
    {AuditLog(1, 0, NoState), AuditLog(2, 0, EmptyState),
     AuditLog(3, 1, SomeState)}

InitRoundTrip ==
    /\ now = 1
    /\ live = RoundTripTable
    /\ nextId = Cardinality(live)
    /\ archives = NoFiles
    /\ backups = NoFiles
    /\ arch = [p \in Procs |-> ArchIdle]
    /\ last = [op |-> "none", outcome |-> "ok"]
    /\ maint = MaintIdle
    /\ comp = CompIdle
    /\ reported = NoFiles
    /\ InitOthers

NextRoundTrip ==
    \/ Tick
    \/ SeqRetention
    \/ SnapBackup
    \/ SnapRestore

SpecRoundTrip == InitRoundTrip /\ [][NextRoundTrip]_vars

\* C35: when restore_from_backup restores a snapshot into an empty store,
\* every record of the snapshot is live again with the identity, the
\* timestamp and the before_state it had when it was written, also when the
\* before_state was the empty dict.
C35_RoundTripPreservesEveryField ==
    [][\A path \in DOMAIN backups :
          (/\ last'.op = "restore_from_backup"
           /\ last'.outcome = "ok"
           /\ live = {}
           /\ restore_from_backup(path)) =>
              /\ Ids(live') = {row.id : row \in backups[path].rows}
              /\ live' \subseteq RoundTripTable]_vars

\* C37: when run_full_maintenance has returned, the snapshot file named in
\* the result of its backup stage is still in the backup directory, whatever
\* backup_keep_days >= 0 the run was given.
C37_MaintenanceKeepsItsOwnBackup ==
    (maint.pc = "done" /\ maint.backup_keep_days >= 0) =>
        maint.results[StageIndex("backup")].backup_file \in DOMAIN backups

\* C32: a request that would build a policy with a negative number of days
\* is refused as an invalid policy: the handler does not answer 200 and no
\* stage runs with it, so live storage and the archive directory stay as
\* they are and archive_old_logs is not begun.
C32_NegativePolicyIsRejected ==
    [][\A d \in RequestDays :
          d < 0 =>
              /\ (response'.route = "apply_data_retention"
                  /\ apply_data_retention(d)) =>
                     response'.status # 200 /\ live' = live
              /\ create_archive_select(d) =>
                     /\ response'.route = "create_archive"
                     /\ response'.status # 200
                     /\ arch'[1].pc = "idle"]_vars

\* C36: when no live record is older than the archive threshold, POST
\* /archive/create answers 200 with archived_count 0 and archive_file null.
C36_EmptyArchiveRequestSucceeds ==
    [][\A d \in RequestDays :
          (/\ \A r \in live : ~(r.timestamp < now - d)
           /\ create_archive_select(d)) =>
              /\ response'.route = "create_archive"
              /\ response'.status = 200
              /\ response'.archived_count = 0
              /\ response'.archive_file = None]_vars

\* C38: PUT /policy/update answers with a new_policy that carries, for every
\* field given in the request, the given value (0 included) and, for every
\* field left out, the value of the current policy.
C38_UpdateChangesOnlyGivenFields ==
    (response.route = "update_policy") =>
        \A name \in PolicyFields :
            response.new_policy[name] =
                IF response.request[name] = Absent
                THEN response.old_policy[name]
                ELSE response.request[name][1]

\* C33: there is no global mutable policy: no operation changes the policy
\* held by the process-wide scheduler, and the manager of every scheduled
\* job is given the policy the scheduler was constructed with, whatever
\* policy another caller has asked for in the meantime.
C33_NoGlobalMutablePolicy ==
    [][/\ scheduler'.policy = scheduler.policy
       /\ scheduler'.ran.policy = SchedulerInit.policy]_vars

\* C39: start and stop make a two-state machine.  start on a running
\* scheduler and stop on a stopped one change nothing, after start the
\* scheduler is running, after stop it is not, neither raises, and the jobs
\* of the scheduler are the six registered ones in every state.
C39_StartStopIsTwoStateMachine ==
    [][/\ start => /\ scheduler'.running
                   /\ scheduler.running => scheduler' = scheduler
                   /\ last'.outcome = "ok"
       /\ stop => /\ ~scheduler'.running
                  /\ ~scheduler.running => scheduler' = scheduler
                  /\ last'.outcome = "ok"
       /\ scheduler'.jobs = Jobs]_vars

\* C40: a run of a scheduled job returns normally and leaves the session it
\* obtained closed, whichever of its calls raised, and it has logged the
\* error when one did.
C40_JobNeverRaisesAndClosesItsSession ==
    /\ scheduler.ran.outcome = "returned"
    /\ scheduler.ran.session = "closed"

\* ------------------------------------- every call, run to its return
\* no call of the manager is in progress
AllIdle ==
    /\ Quiet
    /\ comp.pc = "idle"
    /\ rest.pc = "idle"
    /\ maint.pc = "idle"

TermBackup ==
    /\ AllIdle
    /\ Cardinality(DOMAIN backups) < MaxBackups
    /\ create_backup
TermRestore == AllIdle /\ \E path \in RestorePaths : RestoreOpen(path)
TermCompress == AllIdle /\ \E days \in Days : CompressBegin(days)
TermMaintenance == AllIdle /\ MaintStart

InitTermination ==
    /\ InitCompress
    /\ live = {AuditLog(1, 0, NoState), AuditLog(2, 1, NoState)}
    /\ DOMAIN archives = {JsonPath(0), JsonPath(1)}

NextTermination ==
    \/ Tick
    \/ TermBackup
    \/ TermRestore
    \/ RestoreRow
    \/ RestoreCommit
    \/ TermCompress
    \/ CompressOpen
    \/ CompressCopy
    \/ CompressUnlink
    \/ TermMaintenance
    \/ MaintRetention
    \/ MaintArchiveSelect
    \/ MaintArchiveWrite
    \/ MaintArchiveDelete
    \/ MaintCompress
    \/ MaintBackup
    \/ MaintCleanup

\* a call runs on its caller's thread: once begun, its next statement is
\* executed
CallsProceed ==
    /\ WF_vars(RestoreRow)
    /\ WF_vars(RestoreCommit)
    /\ WF_vars(CompressOpen)
    /\ WF_vars(CompressCopy)
    /\ WF_vars(CompressUnlink)
    /\ WF_vars(MaintRetention)
    /\ WF_vars(MaintArchiveSelect)
    /\ WF_vars(MaintArchiveWrite)
    /\ WF_vars(MaintArchiveDelete)
    /\ WF_vars(MaintCompress)
    /\ WF_vars(MaintBackup)
    /\ WF_vars(MaintCleanup)

SpecTermination ==
    InitTermination /\ [][NextTermination]_vars /\ CallsProceed

\* C34: every call that has begun returns: a running restore_from_backup, a
\* running compress_old_archives and a running archive_old_logs come back
\* to their caller, and a full-maintenance run that has started ends with
\* its result or with the exception of a stage.
C34_EveryCallReturns ==
    /\ (rest.pc # "idle") ~> (rest.pc = "idle")
    /\ (comp.pc # "idle") ~> (comp.pc = "idle")
    /\ (arch[1].pc # "idle") ~> (arch[1].pc = "idle")
    /\ (maint.pc \notin {"idle", "done", "raised"})
           ~> (maint.pc \in {"done", "raised"})

C34_Witness ==
    /\ maint.pc = "done"
    /\ Len(maint.results) = Len(Stages)
    /\ last.op = "cleanup_old_backups"
    /\ comp.cutoff > 0
    /\ \E path \in DOMAIN reported : reported[path] = 2

====
